---- MODULE Spec2Model ----
(***************************************************************************)
(* Model of SkinAnalyzer (src/skin_analyzer.py): the two classifiers       *)
(* (skin type, skin condition), their standardizers, the trained flags,   *)
(* the four pickle files they are persisted in, and the operations         *)
(* __init__ / _load_model / _load_cond_model, train_model,                 *)
(* train_condition_model, predict_skin_type, predict_skin_condition,       *)
(* auto_train, extract_skin_features and generate_synthetic_data.          *)
(*                                                                         *)
(* A fitted object is identified by the data set it was fitted on: with    *)
(* random_state=42 fitting is a deterministic function of the data.        *)
(* Accuracies and class shares are in percent, features in thousandths.    *)
(***************************************************************************)
EXTENDS Integers, Sequences, FiniteSets, TLC

VARIABLES
    disk,             \* path -> content of the file at that path
    constructed,      \* whether a SkinAnalyzer instance exists
    model_path,       \* self.model_path
    cond_model_path,  \* self.cond_model_path
    model,            \* self.model
    cond_model,       \* self.cond_model
    scaler,           \* self.scaler
    cond_scaler,      \* self.cond_scaler
    is_trained,       \* self.is_trained
    is_cond_trained,  \* self.is_cond_trained
    synthAcc,         \* held-out accuracies the (deterministic) synthetic data gives
    faultSide,        \* the classifier whose trainings meet defective data and failing dumps
    last,             \* the last call: operation and returned value
    madeReady,        \* history: the classifiers a completed training or a load of
                      \* both files has made ready on this instance
    noFilesAtInit,    \* history: none of the instance's four files existed when it
                      \* was constructed
    np_random,        \* numpy's process-wide generator: the seed it was last given
                      \* and the number of normal deviates drawn since
    normal_stream,    \* what that generator yields after each seed (it never changes)
    session_state     \* st.session_state of the application, one per browser
                      \* session: session -> (key -> value)

vars == <<disk, constructed, model_path, cond_model_path, model, cond_model,
          scaler, cond_scaler, is_trained, is_cond_trained, synthAcc, faultSide,
          last, madeReady, noFilesAtInit, np_random, normal_stream, session_state>>

----------------------------------------------------------------------------
(* Paths, file contents, inputs                                              *)

\* __init__'s default arguments and the two hard-coded scaler paths
DefaultModelPath == "skin_type_model.pkl"
DefaultCondModelPath == "skin_condition_model.pkl"
ScalerPath == "skin_type_scaler.pkl"
CondScalerPath == "skin_condition_scaler.pkl"

\* other values a caller may pass as model_path / cond_model_path
OtherModelPath == "other_type_model.pkl"
OtherCondModelPath == "other_condition_model.pkl"
ModelPaths == {DefaultModelPath, OtherModelPath}
CondModelPaths == {DefaultCondModelPath, OtherCondModelPath}
Paths == ModelPaths \cup CondModelPaths \cup {ScalerPath, CondScalerPath}

\* object states
None == "None"            \* self.model = None
Unfitted == "unfitted"    \* RandomForestClassifier(...) / StandardScaler() before fit
Absent == "absent"        \* os.path.exists is False
Corrupt == "corrupt"      \* a file joblib.load raises on (a dump cut short)

Synthetic == "S"          \* the features generate_synthetic_data(1000) returns (seed 42)

\* Data sets (features, labels) a caller passes to train_model or
\* train_condition_model. id names the rows of the training split, which is all
\* a fitted scaler or classifier depends on (random_state=42). defect is the
\* step of training that the data set makes fail:
\*   split     - a class with fewer than 2 samples: train_test_split raises
\*   transform - A with an infinite value in a held-out row: fit_transform(X_train)
\*               succeeds, transform(X_test) raises
\*   fit       - A with labels that are no class labels (fractions, each one
\*               repeated): the split and the scaler accept them,
\*               RandomForestClassifier.fit raises
\* acc is the held-out accuracy (percent) a completed training measures.
CleanData == { [id |-> "A", defect |-> "none", acc |-> 85] }
DefectiveData ==
    { [id |-> "A", defect |-> "split", acc |-> 0],
      [id |-> "A", defect |-> "transform", acc |-> 0],
      [id |-> "A", defect |-> "fit", acc |-> 0] }
TrainData == CleanData \cup DefectiveData

\* B is a small data set with samples of the classes 1 and 3 only (a few of
\* each), whose held-out samples the fitted forest gets wrong: accuracy_score
\* returns 0.0. Its split variant has a single sample of class 3.
SmallData == { [id |-> "B", defect |-> "none", acc |-> 0] }
SmallSplitData == { [id |-> "B", defect |-> "split", acc |-> 0] }

\* C is a data set of all four classes with few samples of class 3.
ImbalancedData == { [id |-> "C", defect |-> "none", acc |-> 85] }

\* What joblib.dump does during a call of train: succeed, raise before the file
\* is opened (the file is left as it was), or raise while writing (the file is
\* left cut short), for the classifier file or for the scaler file.
IOFailures == {"model_open", "model_cut", "scaler_open", "scaler_cut"}
IOOutcomes == {"ok"} \cup IOFailures

\* accuracies the synthetic data may give, around the threshold of auto_train
AccLevels == {60, 61}
Threshold == 60

\* shapes of the features argument of predict
Shapes == {"flat18", "row18", "row17"}

\* Where the feature vector lies: the class the forest gives most votes to is
\* the first of the classes it was fitted on (lo), the last one (hi), or none
\* (tie: every class gets the same share).
Points == {"lo", "hi", "tie"}

\* the features argument of predict
Inputs == [shape : Shapes, point : Points]

\* the labels of the data set a classifier was fitted on, in increasing order:
\* RandomForestClassifier.classes_
classes_(m) == IF m = "B" THEN <<1, 3>> ELSE <<0, 1, 2, 3>>

Exists(f) == f # Absent
Loadable(f) == f \notin {Absent, Corrupt}

----------------------------------------------------------------------------
(* The instance's fields together with the disk, as a record                 *)

World ==
    [ model |-> model, cond_model |-> cond_model,
      scaler |-> scaler, cond_scaler |-> cond_scaler,
      is_trained |-> is_trained, is_cond_trained |-> is_cond_trained,
      disk |-> disk ]

Store(w) ==
    /\ model' = w.model
    /\ cond_model' = w.cond_model
    /\ scaler' = w.scaler
    /\ cond_scaler' = w.cond_scaler
    /\ is_trained' = w.is_trained
    /\ is_cond_trained' = w.is_cond_trained
    /\ disk' = w.disk

\* the except branch of train: log, return 0.0
Raised(w) == [w |-> w, ret |-> 0, raised |-> TRUE]
Returned(w, acc) == [w |-> w, ret |-> acc, raised |-> FALSE]

----------------------------------------------------------------------------
(* __init__, _load_model, _load_cond_model                                   *)

\* the fields __init__ sets before it loads
init_fields(w) ==
    [w EXCEPT !.model = None, !.cond_model = None,
              !.scaler = Unfitted, !.cond_scaler = Unfitted,
              !.is_trained = FALSE, !.is_cond_trained = FALSE]

\* mutant: the flag is set as soon as the classifier file has loaded
load_model_flag_early(w, mp) ==
    LET model_exists == Exists(w.disk[mp])
        scaler_exists == Exists(w.disk[ScalerPath])
    IN  IF model_exists /\ scaler_exists
        THEN IF w.disk[mp] = Corrupt
             THEN w
             ELSE LET w1 == [w EXCEPT !.model = w.disk[mp], !.is_trained = TRUE]
                  IN  IF w.disk[ScalerPath] = Corrupt
                      THEN w1
                      ELSE [w1 EXCEPT !.scaler = w.disk[ScalerPath]]
        ELSE IF model_exists /\ ~scaler_exists
        THEN [w EXCEPT !.is_trained = FALSE]
        ELSE w

\* mutant: the standardizer file is not read back
load_model_no_scaler(w, mp) ==
    LET model_exists == Exists(w.disk[mp])
        scaler_exists == Exists(w.disk[ScalerPath])
    IN  IF model_exists /\ scaler_exists
        THEN IF w.disk[mp] = Corrupt
             THEN w
             ELSE [w EXCEPT !.model = w.disk[mp], !.is_trained = TRUE]
        ELSE IF model_exists /\ ~scaler_exists
        THEN [w EXCEPT !.is_trained = FALSE]
        ELSE w

load_model(w, mp) ==
    LET model_exists == Exists(w.disk[mp])
        scaler_exists == Exists(w.disk[ScalerPath])
    IN  IF model_exists /\ scaler_exists
        THEN IF w.disk[mp] = Corrupt
             THEN w                                          \* joblib.load raises
             ELSE LET w1 == [w EXCEPT !.model = w.disk[mp]]
                  IN  IF w.disk[ScalerPath] = Corrupt
                      THEN w1                                \* joblib.load raises
                      ELSE [w1 EXCEPT !.scaler = w.disk[ScalerPath],
                                      !.is_trained = TRUE]
        ELSE IF model_exists /\ ~scaler_exists
        THEN [w EXCEPT !.is_trained = FALSE]
        ELSE w

load_cond_model(w, cp) ==
    LET cond_model_exists == Exists(w.disk[cp])
        cond_scaler_exists == Exists(w.disk[CondScalerPath])
    IN  IF cond_model_exists /\ cond_scaler_exists
        THEN IF w.disk[cp] = Corrupt
             THEN w
             ELSE LET w1 == [w EXCEPT !.cond_model = w.disk[cp]]
                  IN  IF w.disk[CondScalerPath] = Corrupt
                      THEN w1
                      ELSE [w1 EXCEPT !.cond_scaler = w.disk[CondScalerPath],
                                      !.is_cond_trained = TRUE]
        ELSE IF cond_model_exists /\ ~cond_scaler_exists
        THEN [w EXCEPT !.is_cond_trained = FALSE]
        ELSE w

\* SkinAnalyzer(model_path, cond_model_path)
init(w, mp, cp) == load_cond_model(load_model(init_fields(w), mp), cp)

----------------------------------------------------------------------------
(* train_model, train_condition_model                                        *)

\* mutant: self.is_trained = True moved before the two joblib.dump calls
train_model_flag_first(w, mp, d, io) ==
    LET w1 == [w EXCEPT !.scaler = d.id]
        w2 == [w1 EXCEPT !.model = Unfitted]
        w3 == [w2 EXCEPT !.model = d.id, !.is_trained = TRUE]
        w4 == [w3 EXCEPT !.disk[mp] = w3.model]
        w4c == [w3 EXCEPT !.disk[mp] = Corrupt]
        w5 == [w4 EXCEPT !.disk[ScalerPath] = w4.scaler]
        w5c == [w4 EXCEPT !.disk[ScalerPath] = Corrupt]
    IN  IF d.defect = "split" THEN Raised(w)
        ELSE IF d.defect = "transform" THEN Raised(w1)
        ELSE IF d.defect = "fit" THEN Raised(w2)
        ELSE IF io = "model_open" THEN Raised(w3)
        ELSE IF io = "model_cut" THEN Raised(w4c)
        ELSE IF io = "scaler_open" THEN Raised(w4)
        ELSE IF io = "scaler_cut" THEN Raised(w5c)
        ELSE Returned(w5, d.acc)

\* mutant: train_model fits and saves the other classifier's scaler
train_model_cond_scaler(w, mp, d, io) ==
    LET w1 == [w EXCEPT !.cond_scaler = d.id]
        w2 == [w1 EXCEPT !.model = Unfitted]
        w3 == [w2 EXCEPT !.model = d.id]
        w4 == [w3 EXCEPT !.disk[mp] = w3.model]
        w4c == [w3 EXCEPT !.disk[mp] = Corrupt]
        w5 == [w4 EXCEPT !.disk[CondScalerPath] = w4.cond_scaler]
        w5c == [w4 EXCEPT !.disk[CondScalerPath] = Corrupt]
        w6 == [w5 EXCEPT !.is_trained = TRUE]
    IN  IF d.defect = "split" THEN Raised(w)
        ELSE IF d.defect = "transform" THEN Raised(w1)
        ELSE IF d.defect = "fit" THEN Raised(w2)
        ELSE IF io = "model_open" THEN Raised(w3)
        ELSE IF io = "model_cut" THEN Raised(w4c)
        ELSE IF io = "scaler_open" THEN Raised(w4)
        ELSE IF io = "scaler_cut" THEN Raised(w5c)
        ELSE Returned(w6, d.acc)

\* mutant: the scaler is fitted on all the samples before they are split
train_model_scale_before_split(w, mp, d, io) ==
    LET w1 == [w EXCEPT !.scaler = d.id]
        w2 == [w1 EXCEPT !.model = Unfitted]
        w3 == [w2 EXCEPT !.model = d.id]
        w4 == [w3 EXCEPT !.disk[mp] = w3.model]
        w4c == [w3 EXCEPT !.disk[mp] = Corrupt]
        w5 == [w4 EXCEPT !.disk[ScalerPath] = w4.scaler]
        w5c == [w4 EXCEPT !.disk[ScalerPath] = Corrupt]
        w6 == [w5 EXCEPT !.is_trained = TRUE]
    IN  IF d.defect = "split" THEN Raised(w1)
        ELSE IF d.defect = "transform" THEN Raised(w1)
        ELSE IF d.defect = "fit" THEN Raised(w2)
        ELSE IF io = "model_open" THEN Raised(w3)
        ELSE IF io = "model_cut" THEN Raised(w4c)
        ELSE IF io = "scaler_open" THEN Raised(w4)
        ELSE IF io = "scaler_cut" THEN Raised(w5c)
        ELSE Returned(w6, d.acc)

train_model(w, mp, d, io) ==
    LET w1 == [w EXCEPT !.scaler = d.id]                     \* scaler.fit_transform(X_train)
        w2 == [w1 EXCEPT !.model = Unfitted]                 \* self.model = RandomForestClassifier(...)
        w3 == [w2 EXCEPT !.model = d.id]                     \* self.model.fit
        w4 == [w3 EXCEPT !.disk[mp] = w3.model]              \* joblib.dump(self.model, self.model_path)
        w4c == [w3 EXCEPT !.disk[mp] = Corrupt]
        w5 == [w4 EXCEPT !.disk[ScalerPath] = w4.scaler]     \* joblib.dump(self.scaler, self.scaler_path)
        w5c == [w4 EXCEPT !.disk[ScalerPath] = Corrupt]
        w6 == [w5 EXCEPT !.is_trained = TRUE]                \* self.is_trained = True
    IN  IF d.defect = "split" THEN Raised(w)
        ELSE IF d.defect = "transform" THEN Raised(w1)
        ELSE IF d.defect = "fit" THEN Raised(w2)
        ELSE IF io = "model_open" THEN Raised(w3)
        ELSE IF io = "model_cut" THEN Raised(w4c)
        ELSE IF io = "scaler_open" THEN Raised(w4)
        ELSE IF io = "scaler_cut" THEN Raised(w5c)
        ELSE Returned(w6, d.acc)

\* mutant: the scaler is fitted only when it has no fitted statistics yet
train_condition_model_keep_scaler(w, cp, d, io) ==
    LET w1 == IF w.cond_scaler = Unfitted THEN [w EXCEPT !.cond_scaler = d.id] ELSE w
        w2 == [w1 EXCEPT !.cond_model = Unfitted]
        w3 == [w2 EXCEPT !.cond_model = d.id]
        w4 == [w3 EXCEPT !.disk[cp] = w3.cond_model]
        w4c == [w3 EXCEPT !.disk[cp] = Corrupt]
        w5 == [w4 EXCEPT !.disk[CondScalerPath] = w4.cond_scaler]
        w5c == [w4 EXCEPT !.disk[CondScalerPath] = Corrupt]
        w6 == [w5 EXCEPT !.is_cond_trained = TRUE]
    IN  IF d.defect = "split" THEN Raised(w)
        ELSE IF d.defect = "transform" THEN Raised(w1)
        ELSE IF d.defect = "fit" THEN Raised(w2)
        ELSE IF io = "model_open" THEN Raised(w3)
        ELSE IF io = "model_cut" THEN Raised(w4c)
        ELSE IF io = "scaler_open" THEN Raised(w4)
        ELSE IF io = "scaler_cut" THEN Raised(w5c)
        ELSE Returned(w6, d.acc)

train_condition_model(w, cp, d, io) ==
    LET w1 == [w EXCEPT !.cond_scaler = d.id]
        w2 == [w1 EXCEPT !.cond_model = Unfitted]
        w3 == [w2 EXCEPT !.cond_model = d.id]
        w4 == [w3 EXCEPT !.disk[cp] = w3.cond_model]
        w4c == [w3 EXCEPT !.disk[cp] = Corrupt]
        w5 == [w4 EXCEPT !.disk[CondScalerPath] = w4.cond_scaler]
        w5c == [w4 EXCEPT !.disk[CondScalerPath] = Corrupt]
        w6 == [w5 EXCEPT !.is_cond_trained = TRUE]
    IN  IF d.defect = "split" THEN Raised(w)
        ELSE IF d.defect = "transform" THEN Raised(w1)
        ELSE IF d.defect = "fit" THEN Raised(w2)
        ELSE IF io = "model_open" THEN Raised(w3)
        ELSE IF io = "model_cut" THEN Raised(w4c)
        ELSE IF io = "scaler_open" THEN Raised(w4)
        ELSE IF io = "scaler_cut" THEN Raised(w5c)
        ELSE Returned(w6, d.acc)

----------------------------------------------------------------------------
(* predict_skin_type, predict_skin_condition                                 *)

Error(msg) == [error |-> msg]

\* self.skin_types, self.skin_descriptions, self.skin_conditions
skin_types ==
    [c \in 0..3 |-> CASE c = 0 -> "Da kho" [] c = 1 -> "Da dau"
                      [] c = 2 -> "Da hon hop" [] c = 3 -> "Da nhay cam"]
skin_descriptions ==
    [n \in {skin_types[c] : c \in 0..3} |-> <<"description", n>>]
skin_conditions ==
    [c \in 0..3 |-> CASE c = 0 -> "Binh thuong" [] c = 1 -> "Mun"
                      [] c = 2 -> "Nam/tan nhang" [] c = 3 -> "Lo chan long to"]
Unknown == "Khong xac dinh"

\* scaler.transform(features): the vector standardized with the statistics of s
transform(s, x) == [scaler |-> s, point |-> x.point]

\* a vector standardized with the statistics of another data set than the one
\* the forest was fitted on lies elsewhere for the forest
Moved(p) == CASE p = "lo" -> "hi" [] p = "hi" -> "tie" [] p = "tie" -> "lo"

\* model.predict_proba(features_scaled)[0]: one share (in percent) per class of
\* classes_, in the order of classes_
predict_proba(m, z) ==
    LET k == Len(classes_(m))
        p == IF z.scaler = m THEN z.point ELSE Moved(z.point)
    IN  [i \in 1..k |->
            IF p = "tie" THEN 100 \div k
            ELSE IF i = (IF p = "lo" THEN 1 ELSE k) THEN 100 - 10 * (k - 1)
            ELSE 10]

\* np.argmax: the first position of the largest entry
argmax(p) ==
    CHOOSE i \in 1..Len(p) :
        /\ \A j \in 1..Len(p) : p[j] <= p[i]
        /\ \A j \in 1..(i - 1) : p[j] < p[i]

\* model.predict(features_scaled)[0]: classes_.take(argmax(predict_proba))
predict(m, z) == classes_(m)[argmax(predict_proba(m, z))]

\* lines 286-307: the body of predict_skin_type after the two guards.
\* probabilities[prediction] and enumerate(probabilities) take the label, and
\* the position, as an index into the shares (Python counts from 0).
type_payload(w, x) ==
    IF x.shape = "row17"                        \* scaler.transform raises: 17 features
    THEN Error("exception")
    ELSE IF w.model = Unfitted                  \* model.predict raises NotFittedError
    THEN Error("exception")
    ELSE LET features_scaled == transform(w.scaler, x)
             prediction == predict(w.model, features_scaled)
             probabilities == predict_proba(w.model, features_scaled)
             skin_type == skin_types[prediction]
         IN  IF prediction + 1 > Len(probabilities)
             THEN Error("exception")            \* IndexError
             ELSE [ skin_type |-> skin_type,
                    skin_type_code |-> prediction,
                    confidence |-> probabilities[prediction + 1],
                    all_probabilities |->
                        [n \in {skin_types[i - 1] : i \in 1..Len(probabilities)} |->
                            probabilities[CHOOSE i \in 1..Len(probabilities) :
                                              skin_types[i - 1] = n]],
                    description |-> skin_descriptions[skin_type] ]

\* mutant: the guard tests the classifier object only, not the trained flag
predict_skin_type_no_flag(w, x) ==
    IF w.model = None
    THEN Error("model not trained")
    ELSE IF w.scaler = Unfitted
    THEN Error("scaler not fitted")
    ELSE type_payload(w, x)

predict_skin_type(w, x) ==
    IF ~w.is_trained \/ w.model = None
    THEN Error("model not trained")
    ELSE IF w.scaler = Unfitted                 \* not hasattr(self.scaler, 'scale_')
    THEN Error("scaler not fitted")
    ELSE type_payload(w, x)

\* mutant: a failed prediction also carries a default label
predict_skin_condition_default_label(w, x) ==
    IF ~w.is_cond_trained \/ w.cond_model = None
    THEN Error("model not trained")
    ELSE IF w.cond_scaler = Unfitted
    THEN Error("scaler not fitted")
    ELSE IF x.shape # "row18" \/ w.cond_model = Unfitted
    THEN [error |-> "exception", skin_condition |-> Unknown]
    ELSE LET features_scaled == transform(w.cond_scaler, x)
             pred == predict(w.cond_model, features_scaled)
             proba == predict_proba(w.cond_model, features_scaled)
         IN  [ skin_condition |->
                   IF pred \in DOMAIN skin_conditions
                   THEN skin_conditions[pred] ELSE Unknown,
               confidence |-> proba[argmax(proba)],
               all_probabilities |->
                   [n \in {skin_conditions[i - 1] : i \in 1..Len(proba)} |->
                       proba[CHOOSE i \in 1..Len(proba) : skin_conditions[i - 1] = n]] ]

predict_skin_condition(w, x) ==
    IF ~w.is_cond_trained \/ w.cond_model = None
    THEN Error("model not trained")
    ELSE IF w.cond_scaler = Unfitted
    THEN Error("scaler not fitted")
    ELSE IF x.shape # "row18"                   \* cond_scaler.transform(features): needs 2-D, 18 columns
    THEN Error("exception")
    ELSE IF w.cond_model = Unfitted
    THEN Error("exception")
    ELSE LET features_scaled == transform(w.cond_scaler, x)
             pred == predict(w.cond_model, features_scaled)
             proba == predict_proba(w.cond_model, features_scaled)
         IN  [ skin_condition |->
                   IF pred \in DOMAIN skin_conditions
                   THEN skin_conditions[pred] ELSE Unknown,
               confidence |-> proba[argmax(proba)],         \* np.max(proba)
               all_probabilities |->
                   [n \in {skin_conditions[i - 1] : i \in 1..Len(proba)} |->
                       proba[CHOOSE i \in 1..Len(proba) : skin_conditions[i - 1] = n]] ]

IsError(r) == "error" \in DOMAIN r

----------------------------------------------------------------------------
(* auto_train                                                                *)

\* mutant: the comparison with the threshold is not strict
auto_train_not_strict(w, mp, cp, acc, gen, io1, io2) ==
    IF ~gen
    THEN [w |-> w, ret |-> FALSE, type |-> Raised(w), cond |-> Raised(w)]
    ELSE LET t == train_model(w, mp,
                      [id |-> Synthetic, defect |-> "none", acc |-> acc.type], io1)
             c == train_condition_model(t.w, cp,
                      [id |-> Synthetic, defect |-> "none", acc |-> acc.cond], io2)
             ok == (t.ret >= Threshold) /\ (c.ret >= Threshold)
         IN  [w |-> c.w, ret |-> ok, type |-> t, cond |-> c]

\* mutant: the skin-condition training is skipped when the skin-type training
\* failed
auto_train_stops_at_failure(w, mp, cp, acc, gen, io1, io2) ==
    IF ~gen
    THEN [w |-> w, ret |-> FALSE, type |-> Raised(w), cond |-> Raised(w)]
    ELSE LET t == train_model(w, mp,
                      [id |-> Synthetic, defect |-> "none", acc |-> acc.type], io1)
             c == train_condition_model(t.w, cp,
                      [id |-> Synthetic, defect |-> "none", acc |-> acc.cond], io2)
             ok == (t.ret > Threshold) /\ (c.ret > Threshold)
         IN  IF t.raised
             THEN [w |-> t.w, ret |-> FALSE, type |-> t, cond |-> Raised(t.w)]
             ELSE [w |-> c.w, ret |-> ok, type |-> t, cond |-> c]

\* gen is FALSE when generate_synthetic_data raised and returned empty arrays
auto_train(w, mp, cp, acc, gen, io1, io2) ==
    IF ~gen
    THEN [w |-> w, ret |-> FALSE, type |-> Raised(w), cond |-> Raised(w)]
    ELSE LET t == train_model(w, mp,
                      [id |-> Synthetic, defect |-> "none", acc |-> acc.type], io1)
             c == train_condition_model(t.w, cp,
                      [id |-> Synthetic, defect |-> "none", acc |-> acc.cond], io2)
             ok == (t.ret > Threshold) /\ (c.ret > Threshold)
         IN  [w |-> c.w, ret |-> ok, type |-> t, cond |-> c]

----------------------------------------------------------------------------
(* generate_synthetic_data                                                   *)
(* Features are in thousandths.                                              *)

\* the default of n_samples, and the argument auto_train passes
DefaultSamples == 1000
MaxSamples == 40
SampleCounts == 0..MaxSamples \cup {DefaultSamples}

\* What np.random.normal yields after np.random.seed(42), in tenths of the
\* standard deviation, for dimension j of sample number i (both from 0): no
\* noise, 10 deviations down, 10 deviations up, or a mix.
Streams == {"zero", "low", "high", "mixed"}
standard_normal(stream, i, j) ==
    CASE stream = "zero" -> 0
      [] stream = "low" -> 0 - 100
      [] stream = "high" -> 100
      [] stream = "mixed" -> <<0 - 100, 0 - 10, 0, 10, 100>>[((i + j) % 5) + 1]

\* base_features and noise_scale of the four skin types
base_features(skin_type) ==
    CASE skin_type = 0 ->
           <<500, 300, 400, 100, 100, 100, 400, 0, 0, 100, 100, 100,
             300, 200, 300, 400, 200, 300>>
      [] skin_type = 1 ->
           <<500, 600, 700, 100, 100, 100, 600, 0, 0, 100, 100, 100,
             700, 300, 500, 100, 600, 500>>
      [] skin_type = 2 ->
           <<500, 400, 500, 100, 100, 100, 500, 0, 0, 100, 100, 100,
             500, 250, 400, 250, 400, 400>>
      [] OTHER ->
           <<500, 300, 400, 150, 150, 150, 400, 0, 0, 150, 150, 150,
             600, 400, 300, 300, 500, 500>>
noise_scale(skin_type) ==
    CASE skin_type = 0 -> 100 [] skin_type = 1 -> 100
      [] skin_type = 2 -> 150 [] OTHER -> 120

\* lines 200-205: base_features[15], [13] or [17] += 0.2 (indices from 0)
adjusted(skin_type, skin_cond) ==
    LET b == base_features(skin_type)
    IN  IF skin_cond = 1 THEN [b EXCEPT ![16] = @ + 200]
        ELSE IF skin_cond = 2 THEN [b EXCEPT ![14] = @ + 200]
        ELSE IF skin_cond = 3 THEN [b EXCEPT ![18] = @ + 200]
        ELSE b

\* mutant: the result of np.clip is not assigned
clip_discarded(v, lo, hi) == v

\* np.clip
clip(v, lo, hi) == IF v < lo THEN lo ELSE IF v > hi THEN hi ELSE v

\* lines 206-208: the features of sample number i (from 0)
sample_features(skin_type, skin_cond, stream, i) ==
    [j \in 1..18 |->
        clip(adjusted(skin_type, skin_cond)[j]
                 + (standard_normal(stream, i, j - 1) * noise_scale(skin_type)) \div 10,
             0, 1000)]

\* mutant: the samples of a skin type are not divided among the conditions
n_cond_samples_undivided(n_samples) == n_samples \div 4

\* n_type_samples = n_samples // 4; n_cond_samples = n_type_samples // 4
n_cond_samples(n_samples) == (n_samples \div 4) \div 4

\* mutant: base_features is built once per stratum, before the loop over its
\* samples, so the += 0.2 of every iteration adds up
stratum_shared_base(skin_type, skin_cond, n_samples, stream, before) ==
    [k \in 1..n_cond_samples(n_samples) |->
        [features |->
            [j \in 1..18 |->
                clip(base_features(skin_type)[j]
                       + k * (adjusted(skin_type, skin_cond)[j] - base_features(skin_type)[j])
                       + (standard_normal(stream, before + k - 1, j - 1)
                              * noise_scale(skin_type)) \div 10,
                     0, 1000)],
         skin_type |-> skin_type,
         skin_cond |-> skin_cond]]

\* for _ in range(n_cond_samples): the samples of one stratum; before is the
\* number of samples appended so far
stratum(skin_type, skin_cond, n_samples, stream, before) ==
    [k \in 1..n_cond_samples(n_samples) |->
        [features |-> sample_features(skin_type, skin_cond, stream, before + k - 1),
         skin_type |-> skin_type,
         skin_cond |-> skin_cond]]

\* for skin_cond in range(4)
of_skin_type(skin_type, n_samples, stream) ==
    LET m == n_cond_samples(n_samples)
        before == 4 * skin_type * m
    IN  stratum(skin_type, 0, n_samples, stream, before)
        \o stratum(skin_type, 1, n_samples, stream, before + m)
        \o stratum(skin_type, 2, n_samples, stream, before + 2 * m)
        \o stratum(skin_type, 3, n_samples, stream, before + 3 * m)

\* for skin_type in range(4); the three arrays returned
generate_synthetic_data(n_samples, stream) ==
    LET appended == of_skin_type(0, n_samples, stream) \o of_skin_type(1, n_samples, stream)
                    \o of_skin_type(2, n_samples, stream) \o of_skin_type(3, n_samples, stream)
    IN  [ features |-> [i \in 1..Len(appended) |-> appended[i].features],
          skin_type_labels |-> [i \in 1..Len(appended) |-> appended[i].skin_type],
          skin_cond_labels |-> [i \in 1..Len(appended) |-> appended[i].skin_cond] ]

\* The seeds given to numpy's process-wide generator: 42 by line 177, 7 by
\* another user of np.random in the same process.
Seeds == {42, 7}

\* What the generator can yield after the seeds: any stream after 42, and a
\* different one after 7.
NormalStreams ==
    LET other == [zero |-> "low", low |-> "high", high |-> "mixed", mixed |-> "zero"]
    IN  {f \in [Seeds -> Streams] : f[7] = other[f[42]]}

\* the arrays of every call, computed once
generated ==
    [c \in SampleCounts \X Streams |-> generate_synthetic_data(c[1], c[2])] @@ <<>>

\* np.random.seed(s)
np_random_seed(s) == [seed |-> s, drawn |-> 0]

\* np.random.normal(0, noise_scale, 18), once per sample
np_random_normal(state, samples) == [state EXCEPT !.drawn = @ + 18 * samples]

----------------------------------------------------------------------------
(* train_test_split(features, labels, test_size=0.2, random_state=42,        *)
(*                  stratify=labels)                                         *)
(* The split sees a data set through the number of samples of each class.    *)

RECURSIVE Total(_, _)
\* the sum of the entries of f over the keys S
Total(f, S) ==
    IF S = {} THEN 0
    ELSE LET n == CHOOSE n \in S : TRUE IN f[n] + Total(f, S \ {n})

\* np.bincount of the labels of a generated data set
bincount(labels) ==
    [c \in {labels[i] : i \in 1..Len(labels)} |->
        Cardinality({i \in 1..Len(labels) : labels[i] = c})]

\* the class counts of the data sets: A has 25 samples of each class, its
\* split variant 1 sample of class 3; B has 5 and 5, its split variant 5 and
\* 1; C has 9, 9, 9 and 2; the synthetic data have 4 * 62 of each class
class_counts(d) ==
    IF "class_counts" \in DOMAIN d THEN d.class_counts
    ELSE CASE d.id = "B" /\ d.defect = "split" -> (1 :> 5 @@ 3 :> 1)
           [] d.id = "B" /\ d.defect # "split" -> (1 :> 5 @@ 3 :> 5)
           [] d.id = "C" -> (0 :> 9 @@ 1 :> 9 @@ 2 :> 9 @@ 3 :> 2)
           [] d.id = Synthetic -> [c \in 0..3 |-> 4 * n_cond_samples(DefaultSamples)]
           [] d.id = "A" /\ d.defect = "split" -> (0 :> 25 @@ 1 :> 25 @@ 2 :> 25 @@ 3 :> 1)
           [] OTHER -> [c \in 0..3 |-> 25]

\* sklearn's _approximate_mode: n_draws samples shared among the classes in
\* proportion to their counts, rounded down, the samples left over going to
\* the classes with the largest remainders; classes with equal remainders are
\* picked by the random state, here: every pick.
approximate_mode(counts, n_draws) ==
    LET classes == DOMAIN counts
        total == Total(counts, classes)
        floored == [c \in classes |-> (n_draws * counts[c]) \div total]
        remainder == [c \in classes |-> (n_draws * counts[c]) % total]
        need_to_add == n_draws - Total(floored, classes)
        picks == {E \in SUBSET classes :
                     /\ Cardinality(E) = need_to_add
                     /\ \A a \in E, b \in classes \ E : remainder[a] >= remainder[b]}
    IN  {[c \in classes |-> floored[c] + (IF c \in E THEN 1 ELSE 0)] : E \in picks}

\* mutant: as many held-out samples as classes are not enough
train_test_split_strict(counts) ==
    LET classes == DOMAIN counts
        n == Total(counts, classes)
        n_test == (n + 4) \div 5
        n_train == n - n_test
    IN  IF \/ n = 0
           \/ \E c \in classes : counts[c] < 2
           \/ n_train <= Cardinality(classes)
           \/ n_test <= Cardinality(classes)
        THEN {}
        ELSE {[train |-> n_i, test |-> [c \in classes |-> counts[c] - n_i[c]]] :
                 n_i \in approximate_mode(counts, n_train)}

\* The splits the call can return, as the class counts of X_train and X_test;
\* none when it raises: no sample, a class with 1 sample, fewer training or
\* held-out samples than classes. n_test = ceil(0.2 * n), n_train = n - n_test;
\* the held-out samples are those left of each class.
train_test_split(counts) ==
    LET classes == DOMAIN counts
        n == Total(counts, classes)
        n_test == (n + 4) \div 5
        n_train == n - n_test
    IN  IF \/ n = 0
           \/ \E c \in classes : counts[c] < 2
           \/ n_train < Cardinality(classes)
           \/ n_test < Cardinality(classes)
        THEN {}
        ELSE {[train |-> n_i, test |-> [c \in classes |-> counts[c] - n_i[c]]] :
                 n_i \in approximate_mode(counts, n_train)}

\* The browser sessions of the application; each has its own st.session_state
\* and all share the files.
Sessions == {1, 2}

----------------------------------------------------------------------------
(* The state machine                                                         *)

InitAnalyzer ==
    /\ disk = [p \in Paths |-> Absent]
    /\ constructed = FALSE
    /\ model_path = None
    /\ cond_model_path = None
    /\ model = None
    /\ cond_model = None
    /\ scaler = Unfitted
    /\ cond_scaler = Unfitted
    /\ is_trained = FALSE
    /\ is_cond_trained = FALSE
    /\ synthAcc \in [type : AccLevels, cond : AccLevels]
    /\ faultSide \in {"type", "cond"}
    /\ last = [op |-> "none"]
    /\ madeReady = {}
    /\ noFilesAtInit = FALSE
    /\ np_random = np_random_seed(7)
    /\ session_state = [s \in Sessions |-> [k \in {} |-> FALSE]]

\* The trainings and predictions do not draw from np.random: one stream stands
\* for all.
Init ==
    /\ InitAnalyzer
    /\ normal_stream = [s \in Seeds |-> IF s = 42 THEN "mixed" ELSE "zero"]

\* SkinAnalyzer(mp, cp): a new instance takes the place of the previous one
Construct(mp, cp) ==
    /\ Store(init(World, mp, cp))
    /\ constructed' = TRUE
    /\ model_path' = mp
    /\ cond_model_path' = cp
    /\ last' = [op |-> "init"]
    /\ madeReady' =
           {k \in {"type"} : Loadable(disk[mp]) /\ Loadable(disk[ScalerPath])}
           \cup {k \in {"cond"} : Loadable(disk[cp]) /\ Loadable(disk[CondScalerPath])}
    /\ noFilesAtInit' = \A p \in {mp, cp, ScalerPath, CondScalerPath} : disk[p] = Absent
    /\ UNCHANGED <<synthAcc, faultSide, np_random, normal_stream, session_state>>

TrainModel(d, io) ==
    /\ constructed
    /\ LET r == train_model(World, model_path, d, io)
       IN  /\ Store(r.w)
           /\ last' = [op |-> "train_model", ret |-> r.ret, raised |-> r.raised,
                       defect |-> d.defect, data |-> d]
           /\ madeReady' = IF r.raised THEN madeReady ELSE madeReady \cup {"type"}
    /\ UNCHANGED <<constructed, model_path, cond_model_path, synthAcc, faultSide,
                   noFilesAtInit, np_random, normal_stream, session_state>>

TrainConditionModel(d, io) ==
    /\ constructed
    /\ LET r == train_condition_model(World, cond_model_path, d, io)
       IN  /\ Store(r.w)
           /\ last' = [op |-> "train_condition_model", ret |-> r.ret, raised |-> r.raised,
                       defect |-> d.defect, data |-> d]
           /\ madeReady' = IF r.raised THEN madeReady ELSE madeReady \cup {"cond"}
    /\ UNCHANGED <<constructed, model_path, cond_model_path, synthAcc, faultSide,
                   noFilesAtInit, np_random, normal_stream, session_state>>

PredictSkinType(x) ==
    /\ constructed
    /\ last' = [op |-> "predict_skin_type", ret |-> predict_skin_type(World, x)]
    /\ UNCHANGED <<disk, constructed, model_path, cond_model_path, model, cond_model,
                   scaler, cond_scaler, is_trained, is_cond_trained, synthAcc,
                   faultSide, madeReady, noFilesAtInit, np_random, normal_stream,
                   session_state>>

PredictSkinCondition(x) ==
    /\ constructed
    /\ last' = [op |-> "predict_skin_condition", ret |-> predict_skin_condition(World, x)]
    /\ UNCHANGED <<disk, constructed, model_path, cond_model_path, model, cond_model,
                   scaler, cond_scaler, is_trained, is_cond_trained, synthAcc,
                   faultSide, madeReady, noFilesAtInit, np_random, normal_stream,
                   session_state>>

AutoTrain(gen, io1, io2) ==
    /\ constructed
    /\ LET r == auto_train(World, model_path, cond_model_path, synthAcc, gen, io1, io2)
       IN  /\ Store(r.w)
           /\ last' = [op |-> "auto_train", ret |-> r.ret,
                       gen |-> gen, io1 |-> io1, io2 |-> io2,
                       acc_type |-> r.type.ret, acc_cond |-> r.cond.ret,
                       type_raised |-> r.type.raised, cond_raised |-> r.cond.raised]
           /\ madeReady' = madeReady \cup {k \in {"type"} : ~r.type.raised}
                                     \cup {k \in {"cond"} : ~r.cond.raised}
    \* generate_synthetic_data(1000): line 177 reseeds the generator, line 206
    \* draws for every sample (a generation that raises does so after them)
    /\ np_random' = np_random_normal(np_random_seed(42), 16 * n_cond_samples(DefaultSamples))
    /\ UNCHANGED <<constructed, model_path, cond_model_path, synthAcc, faultSide,
                   noFilesAtInit, normal_stream, session_state>>

\* Faults (defective data, failing dumps) hit the trainings of one classifier,
\* faultSide, chosen arbitrarily; the other classifier's trainings complete.
TypeData == IF faultSide = "type" THEN TrainData ELSE CleanData
CondData == IF faultSide = "cond" THEN TrainData ELSE CleanData
TypeIO == IF faultSide = "type" THEN IOOutcomes ELSE {"ok"}
CondIO == IF faultSide = "cond" THEN IOOutcomes ELSE {"ok"}

\* Every caller in the repository constructs SkinAnalyzer() with the defaults.
Next ==
    \/ Construct(DefaultModelPath, DefaultCondModelPath)
    \/ \E d \in TypeData : TrainModel(d, "ok")
    \/ \E d \in CleanData, io \in TypeIO : TrainModel(d, io)
    \/ \E d \in CondData : TrainConditionModel(d, "ok")
    \/ \E d \in CleanData, io \in CondIO : TrainConditionModel(d, io)
    \/ \E x \in Inputs : PredictSkinType(x)
    \/ \E x \in Inputs : PredictSkinCondition(x)
    \/ AutoTrain(FALSE, "ok", "ok")
    \/ \E io1 \in TypeIO, io2 \in CondIO : AutoTrain(TRUE, io1, io2)

Spec == Init /\ [][Next]_vars

\* Instances constructed on either of two pairs of paths (two model_path values,
\* two cond_model_path values); every training completes, one call at a time.
PathPairs == { <<DefaultModelPath, DefaultCondModelPath>>,
               <<OtherModelPath, OtherCondModelPath>> }

NextPaths ==
    \/ \E pp \in PathPairs : Construct(pp[1], pp[2])
    \/ \E d \in CleanData : TrainModel(d, "ok")
    \/ \E d \in CleanData : TrainConditionModel(d, "ok")
    \/ \E x \in Inputs : PredictSkinType(x)
    \/ \E x \in Inputs : PredictSkinCondition(x)
    \/ AutoTrain(TRUE, "ok", "ok")

SpecPaths == Init /\ [][NextPaths]_vars

\* Callers that train on data sets of their own: with all four classes or with
\* two of them, large or small, also with a class of fewer than 2 samples. No
\* dump fails.
NextData ==
    \/ Construct(DefaultModelPath, DefaultCondModelPath)
    \/ \E d \in CleanData \cup SmallData \cup ImbalancedData : TrainModel(d, "ok")
    \/ \E d \in SmallSplitData \cup {e \in DefectiveData : e.defect = "split"} :
           TrainModel(d, "ok")
    \/ \E d \in CleanData \cup SmallData \cup ImbalancedData :
           TrainConditionModel(d, "ok")
    \/ \E d \in SmallSplitData \cup {e \in DefectiveData : e.defect = "split"} :
           TrainConditionModel(d, "ok")
    \/ \E x \in Inputs : PredictSkinType(x)
    \/ \E x \in Inputs : PredictSkinCondition(x)
    \/ AutoTrain(TRUE, "ok", "ok")

SpecData == Init /\ [][NextData]_vars

----------------------------------------------------------------------------
(* extract_skin_features                                                     *)
(* An image is a grid of 8-bit pixels, 2 rows by 2 columns, in B, G, R order. *)
(* Features are in thousandths, rounded down.                                *)

Black == <<0, 0, 0>>
White == <<255, 255, 255>>
Crimson == <<8, 0, 255>>
Palette == {Black, White, Crimson}

Grids == [1..2 -> [1..2 -> Palette]]

\* greys at and just above the two thresholds of lines 143 and 150
Grey127 == <<127, 127, 127>>
Grey128 == <<128, 128, 128>>
Grey200 == <<200, 200, 200>>
Grey201 == <<201, 201, 201>>
Greys == {Grey127, Grey128, Grey200, Grey201}

ThresholdGrids == [1..2 -> [1..2 -> Greys]]

\* 3-channel images, and a 2-D (single-channel) image that cvtColor rejects
Images ==
    [channels : {3}, pixels : Grids]
    \cup { [channels |-> 1, pixels |-> <<<<0, 255>>, <<255, 0>>>>] }

\* face rectangles (x, y, w, h), integers >= 0: the whole image, a column, a
\* row, a pixel, partly outside the image, outside the image, of no width, of
\* no height
FaceCoords ==
    { <<0, 0, 2, 2>>, <<1, 0, 1, 2>>, <<0, 1, 2, 1>>, <<0, 0, 1, 1>>,
      <<1, 1, 2, 2>>, <<2, 0, 1, 1>>, <<0, 0, 0, 2>>, <<0, 1, 2, 0>> }

Min(a, b) == IF a <= b THEN a ELSE b

\* mutant: a slice that reaches beyond the end is empty
Slice_within(s, a, b) == IF b > Len(s) THEN <<>> ELSE SubSeq(s, a + 1, b)

\* s[a:b] of Python for 0 <= a, 0 <= b
Slice(s, a, b) == SubSeq(s, Min(a, Len(s)) + 1, Min(b, Len(s)))

\* image[y:y+h, x:x+w]
face_roi(image, x, y, w, h) ==
    [r \in 1..Len(Slice(image.pixels, y, y + h)) |->
        Slice(Slice(image.pixels, y, y + h)[r], x, x + w)]

Empty(roi) == Len(roi) = 0 \/ Len(roi[1]) = 0

\* cv2.cvtColor(., COLOR_BGR2HSV), 8-bit: H in 0..179, S and V in 0..255
BGR2HSV(p) ==
    CASE p = Black -> <<0, 0, 0>>
      [] p = White -> <<0, 0, 255>>
      [] p = Crimson -> <<179, 255, 255>>
      [] p \in Greys -> <<0, 0, p[3]>>

\* cv2.cvtColor(., COLOR_BGR2LAB), 8-bit: L, a, b in 0..255
BGR2LAB(p) ==
    CASE p = Black -> <<0, 128, 128>>
      [] p = White -> <<255, 128, 128>>
      [] p = Crimson -> <<136, 208, 194>>
      [] p = Grey127 -> <<136, 128, 128>>
      [] p = Grey128 -> <<137, 128, 128>>
      [] p = Grey200 -> <<206, 128, 128>>
      [] p = Grey201 -> <<206, 128, 128>>

\* cv2.cvtColor(., COLOR_BGR2GRAY), 8-bit: 0.114 B + 0.587 G + 0.299 R in
\* 14-bit fixed point
BGR2GRAY(p) == (p[1] * 1868 + p[2] * 9617 + p[3] * 4899 + 8192) \div 16384

\* the pixels of a grid, row after row
RECURSIVE Flat(_)
Flat(g) == IF Len(g) = 0 THEN <<>> ELSE Head(g) \o Flat(Tail(g))

RECURSIVE Sum(_)
Sum(xs) == IF Len(xs) = 0 THEN 0 ELSE Head(xs) + Sum(Tail(xs))

RECURSIVE SqrtIn(_, _, _)
\* the largest r in lo..hi with r * r <= v
SqrtIn(v, lo, hi) ==
    IF lo = hi THEN lo
    ELSE LET mid == (lo + hi + 1) \div 2
         IN  IF mid * mid <= v THEN SqrtIn(v, mid, hi) ELSE SqrtIn(v, lo, mid - 1)
Sqrt(v) == SqrtIn(v, 0, 2048)

\* n * n * variance of xs
SquareSpread(xs) ==
    Len(xs) * Sum([i \in 1..Len(xs) |-> xs[i] * xs[i]]) - Sum(xs) * Sum(xs)

\* float(mean) / d
mean_feature(xs, d) == (Sum(xs) * 1000) \div (Len(xs) * d)

\* mutant: every standard deviation is divided by 90, the divisor of the hue
std_feature_hue_divisor(xs, d) ==
    LET v == (SquareSpread(xs) * 1000) \div (Len(xs) * Len(xs) * 90)
    IN  Sqrt((v * 1000) \div 90)

\* float(std) / d, std the population standard deviation of np.std
std_feature(xs, d) ==
    LET v == (SquareSpread(xs) * 1000) \div (Len(xs) * Len(xs) * d)
    IN  Sqrt((v * 1000) \div d)

\* BORDER_REFLECT_101: the index (from 0) that stands for i in 0..n-1
Reflect101(i, n) ==
    IF n = 1 THEN 0
    ELSE IF i < 0 THEN 0 - i
    ELSE IF i >= n THEN 2 * n - 2 - i
    ELSE i

\* the value at row r, column c (from 0) of the grid g extended over its border
At(g, r, c) == g[Reflect101(r, Len(g)) + 1][Reflect101(c, Len(g[1])) + 1]

\* cv2.Laplacian(gray, CV_64F): kernel 0 1 0 / 1 -4 1 / 0 1 0
Laplacian(g) ==
    [r \in 1..Len(g) |-> [c \in 1..Len(g[1]) |->
        At(g, r - 2, c - 1) + At(g, r, c - 1) + At(g, r - 1, c - 2) + At(g, r - 1, c)
        - 4 * At(g, r - 1, c - 1)]]

\* cv2.Sobel(gray, CV_64F, 1, 0, ksize=3) and cv2.Sobel(gray, CV_64F, 0, 1, ksize=3)
SobelX(g) ==
    [r \in 1..Len(g) |-> [c \in 1..Len(g[1]) |->
        (At(g, r - 2, c) - At(g, r - 2, c - 2))
        + 2 * (At(g, r - 1, c) - At(g, r - 1, c - 2))
        + (At(g, r, c) - At(g, r, c - 2))]]
SobelY(g) ==
    [r \in 1..Len(g) |-> [c \in 1..Len(g[1]) |->
        (At(g, r, c - 2) - At(g, r - 2, c - 2))
        + 2 * (At(g, r, c - 1) - At(g, r - 2, c - 1))
        + (At(g, r, c) - At(g, r - 2, c))]]

\* mutant: a pixel equal to the threshold is counted too
countNonZero_inclusive(g, thresh) == Cardinality({i \in 1..Len(g) : g[i] >= thresh})

\* cv2.countNonZero(cv2.threshold(gray, thresh, 255, cv2.THRESH_BINARY)[1]):
\* THRESH_BINARY sets a pixel to 255 when it is above thresh, to 0 otherwise
countNonZero(g, thresh) == Cardinality({i \in 1..Len(g) : g[i] > thresh})

\* lines 103-166: the 18 features of a crop that is not empty
features_of(roi) ==
    LET px == Flat(roi)
        n == Len(px)
        hsv == [k \in 1..3 |-> [i \in 1..n |-> BGR2HSV(px[i])[k]]]
        lab == [k \in 1..3 |-> [i \in 1..n |-> BGR2LAB(px[i])[k]]]
        gray == [r \in 1..Len(roi) |-> [c \in 1..Len(roi[1]) |-> BGR2GRAY(roi[r][c])]]
        g == Flat(gray)
        lap == Flat(Laplacian(gray))
        gx == Flat(SobelX(gray))
        gy == Flat(SobelY(gray))
        gradient_magnitude == [i \in 1..n |-> Sqrt(gx[i] * gx[i] + gy[i] * gy[i])]
        laplacian_var == Min(SquareSpread(lap) \div (n * n), 1000)
        contrast == Min(std_feature(g, 128), 1000)
        brightness == mean_feature(g, 255)
        dark_spots == countNonZero(g, 127)
        oily_areas == countNonZero(g, 200)
        texture_complexity == Min((Sum(gradient_magnitude) * 1000) \div (n * 255), 1000)
    IN  << mean_feature(hsv[1], 179), mean_feature(hsv[2], 255), mean_feature(hsv[3], 255),
           std_feature(hsv[1], 90), std_feature(hsv[2], 128), std_feature(hsv[3], 128),
           mean_feature(lab[1], 255), mean_feature(lab[2], 255), mean_feature(lab[3], 255),
           std_feature(lab[1], 128), std_feature(lab[2], 128), std_feature(lab[3], 128),
           laplacian_var, contrast, brightness,
           (dark_spots * 1000) \div n, (oily_areas * 1000) \div n, texture_complexity >>

\* the crops of the 3-channel images that are not empty
Crops ==
    { face_roi([channels |-> 3, pixels |-> g], c[1], c[2], c[3], c[4]) :
          g \in Grids \cup ThresholdGrids, c \in {<<0, 0, 2, 2>>, <<0, 0, 1, 2>>, <<1, 0, 1, 2>>,
                               <<0, 0, 2, 1>>, <<0, 1, 2, 1>>, <<0, 0, 1, 1>>,
                               <<1, 0, 1, 1>>, <<0, 1, 1, 1>>, <<1, 1, 1, 1>>} }

\* np.array(features): the 18 features of each crop
features == [roi \in Crops |-> features_of(roi)] @@ <<>>

\* np.zeros(18)
Zeros == [i \in 1..18 |-> 0]

\* mutant: the except branch returns the features collected so far (none)
extract_skin_features_no_fallback(w, image, face_coords) ==
    LET roi == face_roi(image, face_coords[1], face_coords[2],
                        face_coords[3], face_coords[4])
    IN  IF image.channels # 3 \/ Empty(roi)
        THEN [w |-> w, image |-> image, ret |-> <<>>]
        ELSE [w |-> w, image |-> image, ret |-> features[roi]]

\* mutant: the features are standardized when the skin-type scaler is fitted,
\* and the scaler is fitted on them when it is not
extract_skin_features_scaled(w, image, face_coords) ==
    LET roi == face_roi(image, face_coords[1], face_coords[2],
                        face_coords[3], face_coords[4])
    IN  IF image.channels # 3 \/ Empty(roi)
        THEN [w |-> w, image |-> image, ret |-> Zeros]
        ELSE IF w.scaler = Unfitted
        THEN [w |-> [w EXCEPT !.scaler = "A"], image |-> image, ret |-> features[roi]]
        ELSE [w |-> w, image |-> image,
              ret |-> [i \in 1..18 |-> features[roi][i] \div 2]]

\* the method returns the vector; w and image are the instance and the image
\* as the call leaves them. cvtColor raises on an empty crop and on an image
\* that has not 3 channels, and the except branch returns the zero vector.
extract_skin_features(w, image, face_coords) ==
    LET roi == face_roi(image, face_coords[1], face_coords[2],
                        face_coords[3], face_coords[4])
    IN  IF image.channels # 3 \/ Empty(roi)
        THEN [w |-> w, image |-> image, ret |-> Zeros]
        ELSE [w |-> w, image |-> image, ret |-> features[roi]]

ExtractSkinFeatures(image, face_coords) ==
    /\ constructed
    /\ LET r == extract_skin_features(World, image, face_coords)
       IN  /\ Store(r.w)
           /\ last' = [op |-> "extract_skin_features", image |-> image,
                       face_coords |-> face_coords, ret |-> r.ret,
                       image_after |-> r.image]
    /\ UNCHANGED <<constructed, model_path, cond_model_path, synthAcc, faultSide,
                   madeReady, noFilesAtInit, np_random, normal_stream, session_state>>

\* An application that constructs the analyzer, trains it on the synthetic
\* data and extracts features; the synthetic accuracies are fixed.
InitFeatures ==
    /\ Init
    /\ synthAcc = [type |-> 61, cond |-> 61]
    /\ faultSide = "type"

NextFeatures ==
    \/ Construct(DefaultModelPath, DefaultCondModelPath)
    \/ AutoTrain(TRUE, "ok", "ok")
    \/ \E image \in Images, face_coords \in FaceCoords :
           ExtractSkinFeatures(image, face_coords)

SpecFeatures == InitFeatures /\ [][NextFeatures]_vars

\* An application that extracts features from grey images whose pixels are at
\* and just above the thresholds: the whole image, a column, a pixel.
ThresholdImages == [channels : {3}, pixels : ThresholdGrids]

ThresholdCoords == { <<0, 0, 2, 2>>, <<1, 0, 1, 2>>, <<1, 1, 2, 2>> }

NextThreshold ==
    \/ Construct(DefaultModelPath, DefaultCondModelPath)
    \/ \E image \in ThresholdImages, face_coords \in ThresholdCoords :
           ExtractSkinFeatures(image, face_coords)

SpecThreshold == InitFeatures /\ [][NextThreshold]_vars

----------------------------------------------------------------------------
(* Callers of generate_synthetic_data                                        *)

\* generate_synthetic_data(n_samples) called when the process-wide generator
\* is in state: np.random.seed(42) comes first, so the samples are drawn from
\* the stream of that seed, whatever the state was.
seeded_generate(state, n_samples) ==
    LET seeded == np_random_seed(42)
        stream == normal_stream[seeded.seed]
        ret == generated[<<n_samples, stream>>]
    IN  [stream |-> stream, ret |-> ret,
         np_random |-> np_random_normal(seeded, Len(ret.features))]

GenerateSyntheticData(n_samples) ==
    /\ constructed
    /\ LET r == seeded_generate(np_random, n_samples)
       IN  /\ last' = [op |-> "generate_synthetic_data", n_samples |-> n_samples,
                       stream |-> r.stream, random_state |-> np_random, ret |-> r.ret]
           /\ np_random' = r.np_random
    /\ UNCHANGED <<disk, constructed, model_path, cond_model_path, model, cond_model,
                   scaler, cond_scaler, is_trained, is_cond_trained, synthAcc,
                   faultSide, madeReady, noFilesAtInit, normal_stream, session_state>>

\* A caller seeds the process-wide generator: np.random.seed(s)
NpRandomSeed(s) ==
    /\ np_random' = np_random_seed(s)
    /\ last' = [op |-> "np.random.seed", seed |-> s]
    /\ UNCHANGED <<disk, constructed, model_path, cond_model_path, model, cond_model,
                   scaler, cond_scaler, is_trained, is_cond_trained, synthAcc,
                   faultSide, madeReady, noFilesAtInit, normal_stream, session_state>>

\* The generator yields any stream after seed 42, another one after seed 7.
InitGenerate ==
    /\ InitAnalyzer
    /\ synthAcc = [type |-> 61, cond |-> 61]
    /\ faultSide = "type"
    /\ normal_stream \in NormalStreams

\* A caller that constructs the analyzer, seeds the generator and generates
\* data sets
NextGenerate ==
    \/ Construct(DefaultModelPath, DefaultCondModelPath)
    \/ \E s \in Seeds : NpRandomSeed(s)
    \/ \E n_samples \in SampleCounts : GenerateSyntheticData(n_samples)

SpecGenerate == InitGenerate /\ [][NextGenerate]_vars

\* The features and the skin-type labels generate_synthetic_data(n_samples)
\* returned, as the arguments of train_model: the data set S for the default
\* n_samples, the data set G otherwise; acc is the accuracy a forest fitted on
\* them reaches on their held-out samples.
GeneratedData(n_samples, labels, acc) ==
    [id |-> IF n_samples = DefaultSamples THEN Synthetic ELSE "G",
     defect |-> IF train_test_split(bincount(labels)) = {} THEN "split" ELSE "none",
     acc |-> acc,
     class_counts |-> bincount(labels),
     n_samples |-> n_samples]

\* test_skin_analyzer of demo.py: it constructs an analyzer and calls
\* generate_synthetic_data(100); unpacking the three arrays returned into
\* "features, labels" raises ValueError, which the function catches: it returns
\* False without having trained or predicted.
TestSkinAnalyzer ==
    /\ Store(init(World, DefaultModelPath, DefaultCondModelPath))
    /\ constructed' = TRUE
    /\ model_path' = DefaultModelPath
    /\ cond_model_path' = DefaultCondModelPath
    /\ madeReady' =
           {k \in {"type"} : Loadable(disk[DefaultModelPath]) /\ Loadable(disk[ScalerPath])}
           \cup {k \in {"cond"} :
                    Loadable(disk[DefaultCondModelPath]) /\ Loadable(disk[CondScalerPath])}
    /\ noFilesAtInit' =
           \A p \in {DefaultModelPath, DefaultCondModelPath, ScalerPath, CondScalerPath} :
               disk[p] = Absent
    /\ np_random' = np_random_normal(np_random_seed(42), 16 * n_cond_samples(100))
    /\ last' = [op |-> "test_skin_analyzer", ret |-> FALSE]
    /\ UNCHANGED <<synthAcc, faultSide, normal_stream, session_state>>

\* A caller that generates data, trains the skin-type classifier on them and
\* predicts the type of generated samples (features[0:1], one row of 18): the
\* calls test_skin_analyzer sets out to make, with the three arrays unpacked.
\* Every dump succeeds.
PipelineCounts == {0, 15, 16, DefaultSamples}

NextPipeline ==
    \/ Construct(DefaultModelPath, DefaultCondModelPath)
    \/ \E n_samples \in PipelineCounts : GenerateSyntheticData(n_samples)
    \/ /\ last.op = "generate_synthetic_data"
       /\ \E acc \in AccLevels :
              /\ last.n_samples = DefaultSamples => acc = synthAcc.type
              /\ TrainModel(GeneratedData(last.n_samples, last.ret.skin_type_labels, acc),
                            "ok")
    \/ \E x \in Inputs : x.shape = "row18" /\ PredictSkinType(x)
    \/ TestSkinAnalyzer

SpecPipeline == Init /\ [][NextPipeline]_vars

----------------------------------------------------------------------------
(* main_app.py: one run of the script for a session                          *)

\* SkincareAIApp() and main(): __init__ constructs a new SkinAnalyzer (line 35)
\* and sets models_ready from its flags unless the session has the key (lines
\* 52-53); main returns when the user is not logged in; otherwise it calls
\* auto_train when models_ready is False and stores its result (lines 88-91);
\* when the analysis button is pressed it predicts from the extracted vector,
\* reshaped to one row (lines 453-455).
AppRun(session, logged_in, pressed, x, gen, io1, io2) ==
    LET w0 == init(World, DefaultModelPath, DefaultCondModelPath)
        has_key == "models_ready" \in DOMAIN session_state[session]
        ready0 == IF has_key THEN session_state[session]["models_ready"]
                  ELSE w0.is_trained /\ w0.is_cond_trained
        trains == logged_in /\ ~ready0
        r == auto_train(w0, DefaultModelPath, DefaultCondModelPath, synthAcc, gen, io1, io2)
        w1 == IF trains THEN r.w ELSE w0
        ready1 == IF trains THEN r.ret ELSE ready0
        analyzed == logged_in /\ pressed
    IN  /\ Store(w1)
        /\ constructed' = TRUE
        /\ model_path' = DefaultModelPath
        /\ cond_model_path' = DefaultCondModelPath
        /\ session_state' =
               [session_state EXCEPT ![session] = [k \in {"models_ready"} |-> ready1]]
        /\ np_random' =
               IF trains
               THEN np_random_normal(np_random_seed(42), 16 * n_cond_samples(DefaultSamples))
               ELSE np_random
        /\ madeReady' =
               {k \in {"type"} : w0.is_trained \/ (trains /\ ~r.type.raised)}
               \cup {k \in {"cond"} : w0.is_cond_trained \/ (trains /\ ~r.cond.raised)}
        /\ noFilesAtInit' =
               \A p \in {DefaultModelPath, DefaultCondModelPath, ScalerPath, CondScalerPath} :
                   disk[p] = Absent
        /\ last' = [op |-> "app", session |-> session, logged_in |-> logged_in,
                    auto_trained |-> trains, ok |-> trains /\ r.ret,
                    analyzed |-> analyzed,
                    skin_prediction |->
                        IF analyzed THEN predict_skin_type(w1, x) ELSE [none |-> TRUE],
                    skin_condition_pred |->
                        IF analyzed THEN predict_skin_condition(w1, x) ELSE [none |-> TRUE]]
        /\ UNCHANGED <<synthAcc, faultSide, normal_stream>>

\* The sessions run the script one run at a time.
NextApp ==
    \E session \in Sessions, logged_in \in BOOLEAN, pressed \in BOOLEAN,
       x \in {i \in Inputs : i.shape = "row18"}, io1 \in TypeIO, io2 \in CondIO :
        AppRun(session, logged_in, pressed, x, TRUE, io1, io2)

SpecApp == Init /\ [][NextApp]_vars

----------------------------------------------------------------------------
(* Properties                                                                *)

TypeReady == is_trained /\ model # None
CondReady == is_cond_trained /\ cond_model # None
NotTrained == Error("model not trained")

\* C1: whenever a classifier is ready (trained flag set, model object present),
\* the in-memory standardizer paired with it was fitted in the same training
\* run as the model.
C1_ReadyPairFittedTogether ==
    /\ TypeReady => scaler = model
    /\ CondReady => cond_scaler = cond_model

\* C2: a training call, completed or failed at any step, leaves the classifier
\* file and the standardizer file either both as they were or both written by
\* this call, never one of each.
C2_PairPersistedAsOneUnit ==
    [][ /\ last'.op = "train_model" =>
             \/ /\ disk'[model_path] = disk[model_path]
                /\ disk'[ScalerPath] = disk[ScalerPath]
             \/ /\ Loadable(disk'[model_path])
                /\ disk'[model_path] = model'
                /\ disk'[ScalerPath] = scaler'
                /\ model' = scaler'
        /\ last'.op = "train_condition_model" =>
             \/ /\ disk'[cond_model_path] = disk[cond_model_path]
                /\ disk'[CondScalerPath] = disk[CondScalerPath]
             \/ /\ Loadable(disk'[cond_model_path])
                /\ disk'[cond_model_path] = cond_model'
                /\ disk'[CondScalerPath] = cond_scaler'
                /\ cond_model' = cond_scaler'
      ]_vars

\* C3: right after construction a classifier is ready exactly when both of its
\* files exist and load, and then holds what the two files hold; in every
\* other case (one file missing, both missing, a file that does not
\* deserialize) it is untrained and its predict returns the not-trained error
\* for every input.
C3_ConstructionLoadsPairOrNothing ==
    last.op = "init" =>
        /\ is_trained <=> (Loadable(disk[model_path]) /\ Loadable(disk[ScalerPath]))
        /\ is_trained => (model = disk[model_path] /\ scaler = disk[ScalerPath])
        /\ ~is_trained => \A x \in Inputs : predict_skin_type(World, x) = NotTrained
        /\ is_cond_trained <=>
               (Loadable(disk[cond_model_path]) /\ Loadable(disk[CondScalerPath]))
        /\ is_cond_trained =>
               (cond_model = disk[cond_model_path] /\ cond_scaler = disk[CondScalerPath])
        /\ ~is_cond_trained =>
               \A x \in Inputs : predict_skin_condition(World, x) = NotTrained

\* C3 witness: constructed with a classifier file that loads and a standardizer
\* file that does not deserialize
C3_Witness ==
    /\ last.op = "init"
    /\ Loadable(disk[model_path])
    /\ disk[ScalerPath] = Corrupt
    /\ model # None
    /\ ~is_trained

\* C4: on an instance constructed when none of its files existed and on which
\* no training of a classifier has completed, that classifier's predict returns
\* the not-trained error for every input, never a payload.
C4_FreshInstancePredictFails ==
    (constructed /\ noFilesAtInit) =>
        /\ "type" \notin madeReady =>
               /\ \A x \in Inputs : predict_skin_type(World, x) = NotTrained
               /\ last.op = "predict_skin_type" => last.ret = NotTrained
        /\ "cond" \notin madeReady =>
               /\ \A x \in Inputs : predict_skin_condition(World, x) = NotTrained
               /\ last.op = "predict_skin_condition" => last.ret = NotTrained

\* C4 witness: a prediction on a fresh instance whose only training fitted the
\* classifier and then failed to save it
C4_Witness ==
    /\ last.op = "predict_skin_type"
    /\ noFilesAtInit
    /\ "type" \notin madeReady
    /\ model = "A"
    /\ scaler = "A"
    /\ last.ret = NotTrained

\* C5: with instances on different model paths trained one after the other,
\* a fresh instance constructed on either path loads a classifier and a
\* standardizer fitted in the same training run.
C5_FreshInstanceLoadsMatchedPair ==
    last.op = "init" =>
        /\ is_trained => scaler = model
        /\ is_cond_trained => cond_scaler = cond_model

\* C6: a training returns its accuracy only after the classifier and the
\* standardizer are fitted and both files are written, and the trained flag
\* goes up only in a call that has written both files.
C6_ReturnsAfterFitAndPersist ==
    [][ /\ (\/ last'.op = "train_model" /\ ~last'.raised
            \/ last'.op = "auto_train" /\ last'.gen /\ ~last'.type_raised) =>
               /\ Loadable(model') /\ scaler' = model'
               /\ disk'[model_path] = model' /\ disk'[ScalerPath] = scaler'
               /\ is_trained'
        /\ (last'.op \in {"train_model", "auto_train"} /\ ~is_trained /\ is_trained') =>
               /\ Loadable(model')
               /\ disk'[model_path] = model' /\ disk'[ScalerPath] = scaler'
        /\ (\/ last'.op = "train_condition_model" /\ ~last'.raised
            \/ last'.op = "auto_train" /\ last'.gen /\ ~last'.cond_raised) =>
               /\ Loadable(cond_model') /\ cond_scaler' = cond_model'
               /\ disk'[cond_model_path] = cond_model'
               /\ disk'[CondScalerPath] = cond_scaler'
               /\ is_cond_trained'
        /\ (/\ last'.op \in {"train_condition_model", "auto_train"}
            /\ ~is_cond_trained /\ is_cond_trained') =>
               /\ Loadable(cond_model')
               /\ disk'[cond_model_path] = cond_model'
               /\ disk'[CondScalerPath] = cond_scaler'
      ]_vars

\* C6 witness: a train_model call that returned its accuracy on an instance that
\* was not trained at construction
C6_Witness ==
    /\ last.op = "train_model"
    /\ ~last.raised
    /\ last.ret = 85
    /\ noFilesAtInit
    /\ is_trained

\* C7: auto_train returns true only if both held-out accuracies are strictly
\* greater than 0.60; an accuracy of exactly 0.60, a failed training of either
\* classifier, or an empty synthetic data set gives false.
C7_AutoTrainNeedsBothAboveThreshold ==
    last.op = "auto_train" =>
        /\ last.ret =>
               /\ last.gen
               /\ ~last.type_raised /\ ~last.cond_raised
               /\ synthAcc.type > 60 /\ synthAcc.cond > 60
        /\ (last.gen /\ ~last.type_raised) => last.acc_type = synthAcc.type
        /\ (last.gen /\ ~last.cond_raised) => last.acc_cond = synthAcc.cond

\* C7 witness: both trainings completed, one accuracy is exactly 0.60, the
\* result is false
C7_Witness ==
    /\ last.op = "auto_train"
    /\ last.gen /\ ~last.type_raised /\ ~last.cond_raised
    /\ synthAcc.type = 60 /\ synthAcc.cond = 61
    /\ ~last.ret

\* the state a complete retraining on the synthetic data leaves
Retrained ==
    /\ model = Synthetic /\ scaler = Synthetic
    /\ cond_model = Synthetic /\ cond_scaler = Synthetic
    /\ is_trained /\ is_cond_trained
    /\ disk[model_path] = Synthetic /\ disk[ScalerPath] = Synthetic
    /\ disk[cond_model_path] = Synthetic /\ disk[CondScalerPath] = Synthetic

\* what the claim speaks of: the instance's fields and its four files
Observed(w) ==
    [ model |-> w.model, cond_model |-> w.cond_model,
      scaler |-> w.scaler, cond_scaler |-> w.cond_scaler,
      is_trained |-> w.is_trained, is_cond_trained |-> w.is_cond_trained,
      files |-> [p \in {model_path, cond_model_path, ScalerPath, CondScalerPath}
                     |-> w.disk[p]] ]

\* an instance that has loaded nothing, on an empty disk
BlankWorld == init_fields([World EXCEPT !.disk = [p \in Paths |-> Absent]])

\* the last auto_train call left what the same call (same outcome of the data
\* generation and of the dumps) leaves when started on a blank instance
SameAsFromBlank ==
    LET r == auto_train(BlankWorld, model_path, cond_model_path, synthAcc,
                        last.gen, last.io1, last.io2)
    IN  Observed(World) = Observed(r.w) /\ last.ret = r.ret

\* the same call once more, started in the current state, changes nothing and
\* returns what the last one returned
SecondCallSame ==
    LET r == auto_train(World, model_path, cond_model_path, synthAcc,
                        last.gen, last.io1, last.io2)
    IN  r.w = World /\ r.ret = last.ret

AutoTrainCompleted ==
    last.op = "auto_train" /\ last.gen /\ ~last.type_raised /\ ~last.cond_raised

C9_PayloadOnlyAfterTrainingOrLoad ==
    /\ (last.op = "predict_skin_type" /\ ~IsError(last.ret)) => "type" \in madeReady
    /\ (last.op = "predict_skin_condition" /\ ~IsError(last.ret)) => "cond" \in madeReady

\* C9 witness: a skin-condition prediction that returned a payload
C9_Witness ==
    /\ last.op = "predict_skin_condition"
    /\ ~IsError(last.ret)
    /\ "cond" \in madeReady

\* C10: train_model, completed or failed, leaves the skin-condition model, its
\* standardizer, its flag and its two files unchanged, and
\* train_condition_model leaves the skin-type ones unchanged; the two
\* standardizers are kept in different files.
C10_ClassifiersShareNoState ==
    [][ /\ last'.op = "train_model" =>
               /\ UNCHANGED <<cond_model, cond_scaler, is_cond_trained>>
               /\ disk'[cond_model_path] = disk[cond_model_path]
               /\ disk'[CondScalerPath] = disk[CondScalerPath]
        /\ last'.op = "train_condition_model" =>
               /\ UNCHANGED <<model, scaler, is_trained>>
               /\ disk'[model_path] = disk[model_path]
               /\ disk'[ScalerPath] = disk[ScalerPath]
        /\ ScalerPath # CondScalerPath
        /\ constructed' =>
               {model_path', ScalerPath} \cap {cond_model_path', CondScalerPath} = {}
      ]_vars

\* C10 witness: a train_model call that failed on an instance whose
\* skin-condition classifier is ready
C10_Witness ==
    /\ last.op = "train_model"
    /\ last.raised
    /\ CondReady
    /\ cond_scaler = Synthetic
    /\ scaler = "A"

\* the last call completed a training of the classifier
TypeTrainedNow ==
    \/ last.op = "train_model" /\ ~last.raised
    \/ last.op = "auto_train" /\ last.gen /\ ~last.type_raised
CondTrainedNow ==
    \/ last.op = "train_condition_model" /\ ~last.raised
    \/ last.op = "auto_train" /\ last.gen /\ ~last.cond_raised

\* a fresh instance constructed now with the paths of this instance
Fresh == init(World, model_path, cond_model_path)

\* C11: after a training of a classifier has completed on an instance, a fresh
\* instance constructed with the same paths is ready and its predict returns,
\* for every input, what the predict of the training instance returns.
C11_PersistenceRoundTrips ==
    /\ TypeTrainedNow =>
           /\ Fresh.is_trained /\ Fresh.model # None
           /\ \A x \in Inputs :
                  predict_skin_type(Fresh, x) = predict_skin_type(World, x)
    /\ CondTrainedNow =>
           /\ Fresh.is_cond_trained /\ Fresh.cond_model # None
           /\ \A x \in Inputs :
                  predict_skin_condition(Fresh, x) = predict_skin_condition(World, x)

\* C11 witness: a completed train_model on an instance that had loaded other
\* files at construction; the fresh instance returns a payload
C11_Witness ==
    /\ last.op = "train_model" /\ ~last.raised
    /\ ~noFilesAtInit
    /\ model = "A" /\ cond_model = Synthetic
    /\ ~IsError(predict_skin_type(Fresh, [shape |-> "flat18", point |-> "hi"]))

\* r has one share for each of the four names, the shares sum to 1, and the
\* confidence is the share of the returned label, which is the largest
FourClassDistribution(r, label, names) ==
    /\ DOMAIN r.all_probabilities = names
    /\ Total(r.all_probabilities, names) = 100
    /\ r[label] \in names
    /\ r.confidence = r.all_probabilities[r[label]]
    /\ \A n \in names : r.all_probabilities[n] <= r.confidence

\* C12: for a ready classifier, however it was trained (also on labels that do
\* not contain all four classes), a predict call that returns a payload returns
\* a share for each of the 4 classes, summing to 1, and a confidence equal to
\* the share of the returned label, the largest one.
C12_ProbabilitiesCoverFourClasses ==
    /\ (last.op = "predict_skin_type" /\ ~IsError(last.ret)) =>
           FourClassDistribution(last.ret, "skin_type",
                                 {skin_types[c] : c \in 0..3})
    /\ (last.op = "predict_skin_condition" /\ ~IsError(last.ret)) =>
           FourClassDistribution(last.ret, "skin_condition",
                                 {skin_conditions[c] : c \in 0..3})

\* the accuracies a completed training returns
SuccessReturns == {d.acc : d \in CleanData \cup SmallData}

\* C13: a training called with labels in which a class has fewer than 2
\* samples gives its caller a result that no completed training gives.
C13_SplitFailureDistinguishable ==
    (/\ last.op \in {"train_model", "train_condition_model"}
     /\ last.raised
     /\ last.defect = "split") => last.ret \notin SuccessReturns

\* a classifier object that has been fitted (by fit, or before it was dumped)
Fitted(m) == m \notin {None, Unfitted}

\* C14: predict returns the scaler-not-fitted error whenever a classifier
\* object is present and its standardizer has no fitted statistics, whatever
\* the trained flag; it returns the not-trained error only when no classifier
\* object is present.
C14_ScalerCheckIndependentOfFlag ==
    /\ last.op = "predict_skin_type" =>
           /\ (Fitted(model) /\ scaler = Unfitted) =>
                  last.ret = Error("scaler not fitted")
           /\ last.ret = NotTrained => ~Fitted(model)
    /\ last.op = "predict_skin_condition" =>
           /\ (Fitted(cond_model) /\ cond_scaler = Unfitted) =>
                  last.ret = Error("scaler not fitted")
           /\ last.ret = NotTrained => ~Fitted(cond_model)

\* what every predict result is: a failure with the error key and no label, or
\* a payload with the label, a confidence in [0,1] and all_probabilities and
\* without the error key
ErrorOrPayload(r, label) ==
    IF IsError(r)
    THEN label \notin DOMAIN r
    ELSE /\ {label, "confidence", "all_probabilities"} \subseteq DOMAIN r
         /\ r.confidence \in 0..100

\* C15 as stated: every predict result is a failure or a payload, and the
\* skin-condition payload has the fields of the skin-type one, a description
\* among them.
C15_PayloadsHaveSameFields ==
    /\ last.op = "predict_skin_type" => ErrorOrPayload(last.ret, "skin_type")
    /\ last.op = "predict_skin_condition" =>
           /\ ErrorOrPayload(last.ret, "skin_condition")
           /\ ~IsError(last.ret) => "description" \in DOMAIN last.ret

\* C15 amended: every predict result is a failure or a payload; the skin-type
\* payload also has a code and a description, the skin-condition payload has
\* the label, the confidence and all_probabilities only.
C15_ErrorOrPayload ==
    /\ last.op = "predict_skin_type" =>
           /\ ErrorOrPayload(last.ret, "skin_type")
           /\ ~IsError(last.ret) =>
                  DOMAIN last.ret = {"skin_type", "skin_type_code", "confidence",
                                     "all_probabilities", "description"}
    /\ last.op = "predict_skin_condition" =>
           /\ ErrorOrPayload(last.ret, "skin_condition")
           /\ ~IsError(last.ret) =>
                  DOMAIN last.ret = {"skin_condition", "confidence",
                                     "all_probabilities"}

\* C15 witness: a skin-condition prediction failed on a classifier whose flag
\* is set and whose forest is not fitted
C15_Witness ==
    /\ last.op = "predict_skin_condition"
    /\ is_cond_trained /\ cond_model = Unfitted
    /\ last.ret = Error("exception")

\* the rectangle c, clamped to the image, has no width or no height
ClampedEmpty(image, c) ==
    LET rows == Len(image.pixels)
        cols == Len(image.pixels[1])
    IN  \/ Min(c[1] + c[3], cols) - Min(c[1], cols) <= 0
        \/ Min(c[2] + c[4], rows) - Min(c[2], rows) <= 0

\* C16: extract_skin_features always returns 18 values to its caller; for a
\* crop that is empty after clamping the rectangle to the image, and for an
\* image whose conversion fails, it returns the all-zero 18-vector.
C16_ExtractAlwaysReturns18 ==
    last.op = "extract_skin_features" =>
        /\ DOMAIN last.ret = 1..18
        /\ (last.image.channels # 3 \/ ClampedEmpty(last.image, last.face_coords)) =>
               last.ret = Zeros

\* C16 witness: a rectangle of positive width and height outside a 3-channel
\* image gave the zero vector
C16_Witness ==
    /\ last.op = "extract_skin_features"
    /\ last.image.channels = 3
    /\ last.face_coords = <<2, 0, 1, 1>>
    /\ last.ret = Zeros

\* C17: for an 8-bit 3-channel image and a rectangle with w, h > 0, each of
\* the 18 values lies in [0,1], the standard deviations divided by 90 or 128
\* among them.
C17_FeaturesInUnitInterval ==
    (/\ last.op = "extract_skin_features"
     /\ last.image.channels = 3
     /\ last.face_coords[3] > 0 /\ last.face_coords[4] > 0) =>
        \A i \in 1..18 : 0 <= last.ret[i] /\ last.ret[i] <= 1000

\* C17 witness: a crop half black, half crimson: the standard deviations of
\* hue, saturation and value are as large as 8-bit channels allow
C17_Witness ==
    /\ last.op = "extract_skin_features"
    /\ last.image.channels = 3
    /\ last.ret[4] >= 990 /\ last.ret[5] >= 990 /\ last.ret[6] >= 990

\* C18: the vector extract_skin_features returns is the one it returns for the
\* same image and rectangle on an instance that has loaded and trained
\* nothing, and the call changes neither the image nor the models, the
\* standardizers, the trained flags or the files.
C18_ExtractIsPure ==
    [][ last'.op = "extract_skin_features" =>
            /\ last'.ret = extract_skin_features(BlankWorld, last'.image,
                                                 last'.face_coords).ret
            /\ last'.image_after = last'.image
            /\ UNCHANGED <<disk, model, cond_model, scaler, cond_scaler,
                           is_trained, is_cond_trained>>
      ]_vars

\* C18 witness: features extracted on an instance with both classifiers ready
C18_Witness ==
    /\ last.op = "extract_skin_features"
    /\ TypeReady /\ CondReady
    /\ last.ret # Zeros

\* the positions of the samples labelled with skin type t and condition c
StratumOf(r, t, c) ==
    {i \in 1..Len(r.features) : r.skin_type_labels[i] = t /\ r.skin_cond_labels[i] = c}

\* C19: generate_synthetic_data(n) returns floor(n/16) samples for each of the
\* 16 (skin type, skin condition) pairs, 16*floor(n/16) in all, the three
\* arrays have that length, and the i-th feature vector belongs to the stratum
\* of the i-th labels (without noise it is that stratum's center); n = 1000
\* gives 62 per stratum and 992 in all.
C19_SamplesPerStratum ==
    last.op = "generate_synthetic_data" =>
        LET r == last.ret
            n == last.n_samples
        IN  /\ Len(r.features) = 16 * (n \div 16)
            /\ Len(r.skin_type_labels) = Len(r.features)
            /\ Len(r.skin_cond_labels) = Len(r.features)
            /\ \A t \in 0..3, c \in 0..3 :
                   Cardinality(StratumOf(r, t, c)) = n \div 16
            /\ last.stream = "zero" =>
                   \A i \in 1..Len(r.features) :
                       r.features[i] = adjusted(r.skin_type_labels[i],
                                                r.skin_cond_labels[i])
            /\ n = 1000 =>
                   /\ Len(r.features) = 992
                   /\ \A t \in 0..3, c \in 0..3 : Cardinality(StratumOf(r, t, c)) = 62

\* C19 witness: 1000 samples asked, 992 returned
C19_Witness ==
    /\ last.op = "generate_synthetic_data"
    /\ last.n_samples = 1000
    /\ Len(last.ret.features) = 992
    /\ Cardinality(StratumOf(last.ret, 3, 3)) = 62

\* C20: every dimension of every sample generate_synthetic_data returns lies
\* in [0,1], whatever the noise drawn and whatever offset the condition added.
C20_SamplesInUnitInterval ==
    last.op = "generate_synthetic_data" =>
        \A i \in 1..Len(last.ret.features) : \A j \in 1..18 :
            0 <= last.ret.features[i][j] /\ last.ret.features[i][j] <= 1000

\* C20 witness: a sample of condition 1 whose dimension 15, raised by the
\* offset and by the noise, was clipped to 1, and a sample with a dimension
\* clipped to 0
C20_Witness ==
    /\ last.op = "generate_synthetic_data"
    /\ \E i \in 1..Len(last.ret.features) :
           /\ last.ret.skin_cond_labels[i] = 1
           /\ last.ret.features[i][16] = 1000
    /\ \E i \in 1..Len(last.ret.features) : last.ret.features[i][8] = 0

\* C21: every generated sample is its skin type's prototype, plus 0.2 on exactly
\* one dimension chosen by its condition (acne 15, pigmentation 13, enlarged
\* pores 17, normal none; dimensions from 0), plus that sample's noise, clipped.
\* The offset is the same 0.2 for every sample of a stratum: samples of one
\* stratum that get the same noise are equal.
Offset(skin_cond, dim) ==
    IF \/ skin_cond = 1 /\ dim = 15
       \/ skin_cond = 2 /\ dim = 13
       \/ skin_cond = 3 /\ dim = 17
    THEN 200 ELSE 0

Clipped(v) == IF v < 0 THEN 0 ELSE IF v > 1000 THEN 1000 ELSE v

C21_OneOffsetPerCondition ==
    last.op = "generate_synthetic_data" =>
        LET r == last.ret
        IN  /\ \A i \in 1..Len(r.features) : \A dim \in 0..17 :
                  r.features[i][dim + 1] =
                      Clipped(base_features(r.skin_type_labels[i])[dim + 1]
                                + Offset(r.skin_cond_labels[i], dim)
                                + (standard_normal(last.stream, i - 1, dim)
                                     * noise_scale(r.skin_type_labels[i])) \div 10)
            /\ last.stream = "zero" =>
                  \A i, k \in 1..Len(r.features) :
                      (r.skin_type_labels[i] = r.skin_type_labels[k]
                         /\ r.skin_cond_labels[i] = r.skin_cond_labels[k])
                      => r.features[i] = r.features[k]

\* two acne samples of the dry type, without noise: 0.4 + 0.2 on dimension 15
C21_Witness ==
    /\ last.op = "generate_synthetic_data"
    /\ last.stream = "zero"
    /\ last.n_samples = 32
    /\ last.ret.skin_type_labels[3] = 0 /\ last.ret.skin_cond_labels[3] = 1
    /\ last.ret.skin_type_labels[4] = 0 /\ last.ret.skin_cond_labels[4] = 1
    /\ last.ret.features[3][16] = 600
    /\ last.ret.features[4][16] = 600

\* C22: the samples of generate_synthetic_data(n) are determined by n and by the
\* seed the generator was given: a call made after seed S returns what any
\* other call after seed S returns, whatever was drawn in between, and a call
\* after a different seed returns different samples.
C22_ReproducibleAndSeedable ==
    last.op = "generate_synthetic_data" =>
        /\ last.ret = seeded_generate(np_random_seed(last.random_state.seed),
                                      last.n_samples).ret
        /\ \A s \in Seeds \ {last.random_state.seed} :
               Len(last.ret.features) > 0
               => seeded_generate(np_random_seed(s), last.n_samples).ret # last.ret

\* The array extract_skin_features returns, as an argument of predict: one
\* dimension of length 18, lying anywhere for the forests.
AsInput(vector) == {x \in Inputs : x.shape = "flat18" /\ Len(vector) = 18}

\* C23: with both classifiers ready, the vector extract_skin_features returned
\* (the zero vector included), passed as it is to predict_skin_type and to
\* predict_skin_condition, gets a payload from both; and the two predictions
\* accept the same shapes of input.
C23_ExtractedVectorPredictsBoth ==
    (TypeReady /\ CondReady /\ Fitted(model) /\ Fitted(cond_model)
       /\ Fitted(scaler) /\ Fitted(cond_scaler))
    => /\ last.op = "extract_skin_features" =>
             /\ AsInput(last.ret) # {}
             /\ \A x \in AsInput(last.ret) :
                    /\ ~IsError(predict_skin_type(World, x))
                    /\ ~IsError(predict_skin_condition(World, x))
       /\ \A x \in Inputs :
             IsError(predict_skin_type(World, x))
                 <=> IsError(predict_skin_condition(World, x))

\* C25: a training that completes has split its samples into a training split
\* and a held-out split that share no sample and together hold every sample,
\* the held-out split 20% of them (rounded up), with every class in both; the
\* standardizer of the classifier is the one fitted on that training split,
\* and it is the one in the standardizer's file.
C25_SplitKeepsEveryClass ==
    (last.op \in {"train_model", "train_condition_model"} /\ ~last.raised) =>
        LET counts == class_counts(last.data)
            classes == DOMAIN counts
        IN  /\ train_test_split(counts) # {}
            /\ \A s \in train_test_split(counts) :
                   /\ \A c \in classes : s.train[c] + s.test[c] = counts[c]
                   /\ 5 * Total(s.test, classes) >= Total(counts, classes)
                   /\ 5 * (Total(s.test, classes) - 1) < Total(counts, classes)
                   /\ \A c \in classes : s.train[c] > 0 /\ s.test[c] > 0
            /\ last.op = "train_model" =>
                   scaler = last.data.id /\ disk[ScalerPath] = last.data.id
            /\ last.op = "train_condition_model" =>
                   cond_scaler = last.data.id /\ disk[CondScalerPath] = last.data.id

Intersection(image, c) ==
    LET rows == Len(image.pixels)
        cols == Len(image.pixels[1])
        x0 == Min(c[1], cols)
        y0 == Min(c[2], rows)
    IN  <<x0, y0, Min(c[1] + c[3], cols) - x0, Min(c[2] + c[4], rows) - y0>>

\* C26: for a 3-channel image and a rectangle with x, y >= 0, the vector
\* returned is the one returned for the intersection of the rectangle with the
\* image, and it is the zero vector exactly when the intersection has no
\* pixel.
C26_RectangleClampedToImage ==
    (last.op = "extract_skin_features" /\ last.image.channels = 3) =>
        LET inside == Intersection(last.image, last.face_coords)
        IN  /\ last.ret = extract_skin_features(World, last.image, inside).ret
            /\ (last.ret = Zeros) <=> (inside[3] = 0 \/ inside[4] = 0)

\* a rectangle of 2 x 2 at (1, 1) of a 2 x 2 image: the features are those of
\* the pixel at (1, 1)
C26_Witness ==
    /\ last.op = "extract_skin_features"
    /\ last.image.channels = 3
    /\ last.face_coords = <<1, 1, 2, 2>>
    /\ Intersection(last.image, last.face_coords) = <<1, 1, 1, 1>>
    /\ last.ret # Zeros
    /\ last.ret = features[<< <<last.image.pixels[2][2]>> >>]

\* both classifiers ready: flags set, fitted models and fitted standardizers
BothReady ==
    /\ TypeReady /\ Fitted(model) /\ Fitted(scaler)
    /\ CondReady /\ Fitted(cond_model) /\ Fitted(cond_scaler)

\* C27: a run in which auto_train returned True ends with both classifiers
\* ready and the four files holding what that call fitted; and at the end of
\* every run of a session whose models_ready is True, both classifiers of the
\* run's analyzer are ready.
C27_ModelsReadyMeansReady ==
    last.op = "app" =>
        /\ last.ok =>
               /\ BothReady
               /\ disk[model_path] = Synthetic /\ disk[ScalerPath] = Synthetic
               /\ disk[cond_model_path] = Synthetic /\ disk[CondScalerPath] = Synthetic
        /\ session_state[last.session]["models_ready"] => BothReady

\* C28: a call of auto_train whose data are not empty leaves the state that
\* train_model followed by train_condition_model leave, the second started
\* from the state the first one left, whether the first failed or not and
\* whatever the result; a training that completed has its classifier ready and
\* its two files written, also when the call returns False.
C28_AutoTrainRunsBothTrainings ==
    [][ (last'.op = "auto_train" /\ last'.gen) =>
          LET t == train_model(World, model_path,
                       [id |-> Synthetic, defect |-> "none", acc |-> synthAcc.type],
                       last'.io1)
              c == train_condition_model(t.w, cond_model_path,
                       [id |-> Synthetic, defect |-> "none", acc |-> synthAcc.cond],
                       last'.io2)
          IN  /\ World' = c.w
              /\ last'.type_raised = t.raised
              /\ last'.cond_raised = c.raised
              /\ ~last'.type_raised =>
                     /\ is_trained' /\ model' = Synthetic /\ scaler' = Synthetic
                     /\ disk'[model_path] = Synthetic /\ disk'[ScalerPath] = Synthetic
              /\ ~last'.cond_raised =>
                     /\ is_cond_trained' /\ cond_model' = Synthetic
                     /\ cond_scaler' = Synthetic
                     /\ disk'[cond_model_path] = Synthetic
                     /\ disk'[CondScalerPath] = Synthetic ]_vars

\* auto_train returned False after a failed skin-type training, and the
\* skin-condition classifier is ready and persisted
C28_Witness ==
    /\ last.op = "auto_train" /\ last.gen
    /\ ~last.ret
    /\ last.type_raised /\ ~last.cond_raised
    /\ ~is_trained
    /\ CondReady /\ cond_model = Synthetic /\ cond_scaler = Synthetic
    /\ disk[cond_model_path] = Synthetic /\ disk[CondScalerPath] = Synthetic

\* C29: a training that fails at the split (a class with fewer than 2
\* samples) leaves the fields and the files as they were, those of the other
\* classifier too, and a ready classifier predicts what it predicted before.
C29_SplitFailureChangesNothing ==
    [][ (last'.op \in {"train_model", "train_condition_model"}
           /\ last'.raised /\ last'.defect = "split")
        => /\ World' = World
           /\ \A x \in {i \in Inputs : i.shape = "row18" /\ i.point = "hi"} :
                  /\ TypeReady =>
                         predict_skin_type(World, x)' = predict_skin_type(World, x)
                  /\ CondReady =>
                         predict_skin_condition(World, x)'
                             = predict_skin_condition(World, x)
      ]_vars

\* a failed split on an analyzer whose skin-type classifier was ready from the
\* synthetic data, and still returns a payload
C29_Witness ==
    /\ last.op = "train_model"
    /\ last.raised /\ last.defect = "split"
    /\ TypeReady /\ model = Synthetic /\ scaler = Synthetic
    /\ disk[model_path] = Synthetic /\ disk[ScalerPath] = Synthetic
    /\ ~IsError(predict_skin_type(World, [shape |-> "row18", point |-> "lo"]))

----------------------------------------------------------------------------
\* the grey values of the crop of the last extraction, row after row
GrayOfCrop ==
    LET roi == face_roi(last.image, last.face_coords[1], last.face_coords[2],
                        last.face_coords[3], last.face_coords[4])
    IN  [i \in 1..Len(Flat(roi)) |-> BGR2GRAY(Flat(roi)[i])]

\* C30: in every vector returned by extract_skin_features the oily-area ratio
\* (pixels strictly above 200) is at most the dark-spot ratio (pixels strictly
\* above 127), both are fractions of the one pixel count of the crop, and a
\* pixel equal to a threshold is not counted.
C30_OilyWithinDarkSpots ==
    last.op = "extract_skin_features" =>
        /\ last.ret[17] <= last.ret[16]
        /\ last.ret # Zeros =>
               LET g == GrayOfCrop
                   n == Len(g)
                   above(t) == {i \in 1..n : g[i] > t}
               IN  /\ last.ret[16] = (Cardinality(above(127)) * 1000) \div n
                   /\ last.ret[17] = (Cardinality(above(200)) * 1000) \div n
                   /\ (\A i \in 1..n : g[i] = 127) => last.ret[16] = 0
                   /\ (\A i \in 1..n : g[i] <= 200) => last.ret[17] = 0

\* an extraction from a crop with a pixel at each threshold and one above
C30_Witness ==
    /\ last.op = "extract_skin_features"
    /\ last.ret # Zeros
    /\ {127, 128, 200, 201} \subseteq {GrayOfCrop[i] : i \in 1..Len(GrayOfCrop)}
    /\ last.ret[16] = 750
    /\ last.ret[17] = 250


====
